---------------------------- MODULE Spec2Model ----------------------------
(***************************************************************************)
(* Model of the Junos SNMP control-plane tools:                            *)
(*   src/SNMP/check-controlplane.py  (the audit:       check_host, main)   *)
(*   src/SNMP/set-snmp.py            (the remediation: apply_one,  main)   *)
(*                                                                         *)
(* A Python str is modelled as a tuple of one-character strings, so that   *)
(* strip, split, join, lower, splitlines and the `in` substring test are   *)
(* computed character by character as the interpreter computes them.       *)
(* The netmiko session (ConnectHandler, send_command, config_mode, ...) is *)
(* the environment: each call either returns a text or raises.             *)
(***************************************************************************)
EXTENDS Integers, Sequences, FiniteSets, TLC

(***************************************************************************)
(* Python str helpers                                                      *)
(***************************************************************************)

\* the characters str.split() and str.strip() treat as whitespace
Whitespace == {" ", "\t", "\n", "\r"}

Digits == <<"0","1","2","3","4","5","6","7","8","9">>

UpperCase ==
    <<"A","B","C","D","E","F","G","H","I","J","K","L","M","N","O","P","Q","R","S","T","U",
      "V","W","X","Y","Z">>

LowerCase ==
    <<"a","b","c","d","e","f","g","h","i","j","k","l","m","n","o","p","q","r","s","t","u",
      "v","w","x","y","z">>

IndexOf(seq, c) == CHOOSE i \in 1..Len(seq) : seq[i] = c

InSeq(seq, c) == \E i \in 1..Len(seq) : seq[i] = c

\* ord(c): the code point of a character of the texts the model uses
ord(c) ==
    IF c = " " THEN 32
    ELSE IF c = "#" THEN 35
    ELSE IF c = "," THEN 44
    ELSE IF c = "-" THEN 45
    ELSE IF c = "." THEN 46
    ELSE IF c = "/" THEN 47
    ELSE IF InSeq(Digits, c) THEN 47 + IndexOf(Digits, c)
    ELSE IF c = ":" THEN 58
    ELSE IF InSeq(UpperCase, c) THEN 64 + IndexOf(UpperCase, c)
    ELSE IF c = "_" THEN 95
    ELSE IF InSeq(LowerCase, c) THEN 96 + IndexOf(LowerCase, c)
    ELSE IF c = "\t" THEN 9
    ELSE IF c = "\r" THEN 13
    ELSE 10

\* str.lower() on one character
lower_char(c) ==
    IF InSeq(UpperCase, c) THEN LowerCase[IndexOf(UpperCase, c)] ELSE c

\* s.lower()
lower(s) == [i \in 1..Len(s) |-> lower_char(s[i])]

\* needle in hay
contains(hay, needle) ==
    \E i \in 1..(Len(hay) - Len(needle) + 1) :
        SubSeq(hay, i, i + Len(needle) - 1) = needle

\* s.startswith(prefix)
startswith(s, prefix) ==
    /\ Len(prefix) <= Len(s)
    /\ SubSeq(s, 1, Len(prefix)) = prefix

\* s.strip(): leading and trailing whitespace removed
strip(s) ==
    LET keep == {i \in 1..Len(s) : s[i] \notin Whitespace}
    IN  IF keep = {} THEN <<>>
        ELSE LET lo == CHOOSE i \in keep : \A j \in keep : i <= j
                 hi == CHOOSE i \in keep : \A j \in keep : j <= i
             IN  SubSeq(s, lo, hi)

\* s.split(): the maximal runs of non-whitespace characters, in order
RECURSIVE split(_)
split(s) ==
    LET t == strip(s)
    IN  IF t = <<>> THEN <<>>
        ELSE LET ws  == {i \in 1..Len(t) : t[i] \in Whitespace}
                 cut == IF ws = {} THEN Len(t) + 1
                        ELSE CHOOSE i \in ws : \A j \in ws : i <= j
             IN  <<SubSeq(t, 1, cut - 1)>> \o split(SubSeq(t, cut, Len(t)))

\* sep.join(words)
RECURSIVE join(_, _)
join(sep, words) ==
    IF words = <<>> THEN <<>>
    ELSE IF Len(words) = 1 THEN words[1]
    ELSE words[1] \o sep \o join(sep, Tail(words))

\* s.split(",")[0]: the text before the first comma
split_comma_first(s) ==
    LET commas == {i \in 1..Len(s) : s[i] = ","}
    IN  IF commas = {} THEN s
        ELSE SubSeq(s, 1, (CHOOSE i \in commas : \A j \in commas : i <= j) - 1)

\* s.splitlines(): lines end at \n, \r or \r\n; no empty last line
RECURSIVE splitlines(_)
splitlines(s) ==
    IF s = <<>> THEN <<>>
    ELSE LET brk == {i \in 1..Len(s) : s[i] \in {"\n", "\r"}}
         IN  IF brk = {} THEN <<s>>
             ELSE LET b   == CHOOSE i \in brk : \A j \in brk : i <= j
                      nxt == IF s[b] = "\r" /\ b < Len(s) /\ s[b + 1] = "\n"
                             THEN b + 2 ELSE b + 1
                  IN  <<SubSeq(s, 1, b - 1)>> \o splitlines(SubSeq(s, nxt, Len(s)))

\* a < b for Python str: by code points, a proper prefix first
RECURSIVE str_less(_, _)
str_less(a, b) ==
    IF b = <<>> THEN FALSE
    ELSE IF a = <<>> THEN TRUE
    ELSE IF ord(a[1]) # ord(b[1]) THEN ord(a[1]) < ord(b[1])
    ELSE str_less(Tail(a), Tail(b))

(***************************************************************************)
(* Program constants                                                       *)
(***************************************************************************)

TARGET_SUBSTR ==
    <<"s","e","t"," ","f","i","r","e","w","a","l","l"," ","f","a","m","i","l","y"," ","i","n",
      "e","t"," ","f","i","l","t","e","r"," ","c","o","n","t","r","o","l","p","l","a","n","e",
      "-","f","i","l","t","e","r"," ","t","e","r","m"," ","s","n","m","p","_","a","l","l","o",
      "w","_","i","n">>

\* set-snmp.py spells the same prefix out in each of its three literals
VERIFY_BASE ==
    TARGET_SUBSTR \o <<" ","f","r","o","m"," ","s","o","u","r","c","e","-","a","d","d","r","e","s","s">>

CMD1 == VERIFY_BASE \o <<" ","1","0",".","0",".","0",".","0","/","2","4">>

CMD2 == VERIFY_BASE \o <<" ","1","0",".","1",".","0",".","0","/","2","4">>

\* the literal apply_one looks for in the lower-cased commit response
COMMIT_MARKER == <<"c","o","m","m","i","t"," ","c","o","m","p","l","e","t","e">>

WORKERS == 20

(***************************************************************************)
(* Inputs of a run                                                         *)
(***************************************************************************)

\* the longest host file the model reads, in lines
MaxLines == 2

\* the --workers arguments the model passes to the audit: one the max(1, .)
\* raises to a single thread, and one that runs two hosts at once
WorkerArgs == {0, 2}

NL == <<"\n">>

\* the lines a host file is made of: a blank line, a comment, a bare host,
\* and an indented host with a trailing annotation
RawLines ==
    { <<" ">>,
      <<"#"," ","l","a","b">>,
      <<"r","1">>,
      <<" ","r","2"," ",",","c","o","r","e">> }

RECURSIVE SeqsUpTo(_, _)
SeqsUpTo(S, n) ==
    IF n = 0 THEN {<<>>}
    ELSE LET shorter == SeqsUpTo(S, n - 1)
         IN  shorter \cup {Append(q, x) : q \in {r \in shorter : Len(r) = n - 1}, x \in S}

\* what path.read_text().splitlines() gives for the files of the model
FileContents == SeqsUpTo(RawLines, MaxLines)

Plans == {"audit", "remediation"}

\* netmiko's failures; both are subclasses of Exception
ConnectErrors ==
    { [cls |-> "NetmikoTimeoutException", msg |-> "TCP connection to device failed"] }

StepErrors ==
    { [cls |-> "ReadTimeout", msg |-> "Pattern not detected"] }

\* str(e)
str(e) == e.msg

\* what the device answers to the audit's show command: nothing; two lines
\* with the term (one of them spaced with blanks and a tab) and one without;
\* one line without
CaptureOutputs ==
    { <<>>,
      <<" "," ">> \o TARGET_SUBSTR \o <<"\t","t","h","e","n"," ","a","c","c","e","p","t">> \o NL
          \o <<"s","e","t"," ","s","n","m","p"," ","v","3">> \o NL
          \o CMD1,
      <<"s","e","t"," ","s","n","m","p"," ","v","3">> \o NL }

\* what the device answers to commit: the confirmation, capitalised; an error
CommitOutputs ==
    { <<"C","o","m","m","i","t"," ","c","o","m","p","l","e","t","e">> \o NL,
      <<"e","r","r","o","r",":"," ","c","o","m","m","i","t"," ","f","a","i","l","e","d">> \o NL }

\* what the device answers to the verification show command: both lines,
\* reordered, repeated and padded; only the first line
VerifyOutputs ==
    { CMD2 \o <<" "," ">> \o NL \o CMD1 \o NL \o CMD2,
      CMD1 \o NL }

(***************************************************************************)
(* The pure parts of the two programs                                      *)
(***************************************************************************)

\* the loop of load_devices (and, line for line, of load_hosts): strip the
\* line, skip it when empty or a comment, keep the text before the first comma
RECURSIVE parse_hosts(_)
parse_hosts(lines) ==
    IF lines = <<>> THEN <<>>
    ELSE LET line == strip(lines[1])
         IN  IF line = <<>> \/ startswith(line, <<"#">>)
             THEN parse_hosts(Tail(lines))
             ELSE <<strip(split_comma_first(line))>> \o parse_hosts(Tail(lines))

\* check-controlplane.py load_devices: raises when the file is missing or
\* holds no host
load_devices(file) ==
    IF ~file.exists
    THEN [raised |-> "FileNotFoundError", hosts |-> <<>>]
    ELSE IF parse_hosts(file.lines) = <<>>
    THEN [raised |-> "ValueError", hosts |-> <<>>]
    ELSE [raised |-> "", hosts |-> parse_hosts(file.lines)]

\* set-snmp.py load_hosts: raises only when the file is missing
load_hosts(file) ==
    IF ~file.exists
    THEN [raised |-> "FileNotFoundError", hosts |-> <<>>]
    ELSE [raised |-> "", hosts |-> parse_hosts(file.lines)]

\* faulty variant of canonicalize: only the ends are trimmed
canonicalize_strip(s) == strip(s)

\* canonicalize(s): " ".join(s.split())
canonicalize(s) == join(<<" ">>, split(s))

\* faulty variant of verify: one expected line is enough
verify_any(out) ==
    LET lines == splitlines(out)
        have  == {join(<<" ">>, split(lines[i])) : i \in 1..Len(lines)}
        need  == {join(<<" ">>, split(CMD1)), join(<<" ">>, split(CMD2))}
    IN  need \cap have # {}

\* the counting loop of check_host
count_matches(out) ==
    LET lines  == splitlines(out)
        target == canonicalize(TARGET_SUBSTR)
    IN  Cardinality({i \in 1..Len(lines) : contains(canonicalize(lines[i]), target)})

\* the tuple check_host returns after the capture: found = matches > 0
check_host_return(host, matches) ==
    <<host, TRUE, matches > 0, matches, "">>

\* faulty variant of check_host_except: the message of the exception is dropped
check_host_except_no_message(host, e) ==
    <<host, FALSE, FALSE, 0, "">>

\* the tuple check_host returns from its except clause
check_host_except(host, e) ==
    <<host, FALSE, FALSE, 0, str(e)>>

\* verify(conn), after the capture: need.issubset(have)
verify(out) ==
    LET lines == splitlines(out)
        have  == {join(<<" ">>, split(lines[i])) : i \in 1..Len(lines)}
        need  == {join(<<" ">>, split(CMD1)), join(<<" ">>, split(CMD2))}
    IN  need \subseteq have

\* committed = "commit complete" in commit.lower()
committed(commit) == contains(lower(commit), COMMIT_MARKER)

\* faulty variant of apply_one_return: verified is reported only for a
\* confirmed commit
apply_one_return_gated(host, is_committed, ok) ==
    <<host, TRUE, is_committed, is_committed /\ ok, "">>

\* the tuple apply_one returns after verify
apply_one_return(host, is_committed, ok) ==
    <<host, TRUE, is_committed, ok, "">>

\* faulty variant of apply_one_except: the row keeps connected=True
apply_one_except_connected(host, e) ==
    <<host, TRUE, FALSE, FALSE, str(e)>>

\* the tuple apply_one returns from its except clause
apply_one_except(host, e) ==
    <<host, FALSE, FALSE, FALSE, str(e)>>

\* `except Exception`: what the except clause of both workers catches
ExceptionClasses == {"NetmikoTimeoutException", "ReadTimeout"}

\* faulty variant of except_Exception: `except NetmikoTimeoutException`
except_only_timeout(e) == e.cls = "NetmikoTimeoutException"

except_Exception(e) == e.cls \in ExceptionClasses

\* faulty variant of max_workers: max(2, workers)
max_workers_floor_two(workers) == IF workers > 2 THEN workers ELSE 2

\* max_workers=max(1, workers)
max_workers(workers) == IF workers > 1 THEN workers ELSE 1

\* sorted(names): Python's sort of a list of str
RECURSIVE insert_sorted(_, _)
insert_sorted(x, sortedSeq) ==
    IF sortedSeq = <<>> THEN <<x>>
    ELSE IF str_less(x, sortedSeq[1]) THEN <<x>> \o sortedSeq
    ELSE <<sortedSeq[1]>> \o insert_sorted(x, Tail(sortedSeq))

RECURSIVE sorted(_)
sorted(names) ==
    IF names = <<>> THEN <<>>
    ELSE insert_sorted(names[Len(names)], sorted(SubSeq(names, 1, Len(names) - 1)))

\* the three text computations, tabulated once over the answers of the model
matches_of == [out \in CaptureOutputs |-> count_matches(out)]

committed_of == [out \in CommitOutputs |-> committed(out)]

verify_of == [out \in VerifyOutputs |-> verify(out)]

(***************************************************************************)
(* State                                                                   *)
(***************************************************************************)

VARIABLES
    plan,          \* which program runs: "audit" or "remediation"
    devices_file,  \* the host file: [exists, lines]
    args_workers,  \* --workers of the audit (set-snmp.py uses WORKERS)
    main_pc,       \* where main() is
    hosts,         \* the list load_devices / load_hosts returned
    futs,          \* the futures of the pool, one task record each
    results,       \* results (audit) / rows (remediation), in arrival order
    console,       \* the per-device lines set-snmp.py prints while collecting
    report,        \* the files written: the CSV and the two text lists
    interrupted,   \* a KeyboardInterrupt was delivered to the main thread
    fatal,         \* the exception that ended main(), "" when none did
    exit_status,   \* the exit status of the process, -1 while it runs
    dev,           \* one worker call on its own: its task and the exceptions swallowed
    tx             \* one call of a text function on its own: the text and the result

vars ==
    <<plan, devices_file, args_workers, main_pc, hosts, futs, results, console, report,
      interrupted, fatal, exit_status, dev, tx>>

inputs == <<plan, devices_file, args_workers>>

\* the state of the stand-alone calls, which a run of main() does not touch
alone == <<dev, tx>>

\* the positions of a worker: check_host runs connect, pager, capture, finally;
\* apply_one runs connect, pager, config_mode, send_config_set, commit,
\* exit_config_mode, verify, finally
Running(t) == t.pc \notin {"queued", "done"}

\* the number of tasks a pool thread is executing
running_count == Cardinality({i \in 1..Len(futs) : Running(futs[i])})

\* ThreadPoolExecutor(max_workers=max(1, args.workers)) / max(1, WORKERS)
pool_size == max_workers(IF plan = "audit" THEN args_workers ELSE WORKERS)

\* ex.submit(check_host, h, ...): a new future, its work item queued
new_task(h) ==
    [host |-> h, pc |-> "queued", conn |-> FALSE, sent |-> <<>>, resp |-> <<>>,
     commit |-> <<>>, ret |-> <<>>, exc |-> <<>>, disconnects |-> 0, yielded |-> FALSE]

no_report ==
    [written |-> FALSE, csv |-> <<>>, have |-> <<>>, missing |-> <<>>, summary |-> <<>>]

\* no stand-alone worker call, no stand-alone text call
no_dev == [task |-> new_task(<<>>), swallowed |-> {}]

no_tx == [fn |-> "", pc |-> "idle", forms |-> <<>>, text |-> <<>>, out |-> <<>>]

\* the state when main() is entered; set-snmp.py takes no --workers argument,
\* so args_workers is held at 0 for the remediation
Init ==
    /\ plan \in Plans
    /\ devices_file \in
           {[exists |-> FALSE, lines |-> <<>>]}
               \cup {[exists |-> TRUE, lines |-> c] : c \in FileContents}
    /\ args_workers \in WorkerArgs
    /\ plan = "remediation" => args_workers = 0
    /\ main_pc = "load"
    /\ hosts = <<>>
    /\ futs = <<>>
    /\ results = <<>>
    /\ console = <<>>
    /\ report = no_report
    /\ interrupted = FALSE
    /\ fatal = ""
    /\ exit_status = -1
    /\ dev = no_dev
    /\ tx = no_tx

(***************************************************************************)
(* main(): loading, the prompt, the pool                                   *)
(***************************************************************************)

\* hosts = load_devices(args.devices) / load_hosts(DEVICES_FILE); an exception
\* here leaves main() and ends the process with a traceback, status 1
Load ==
    /\ main_pc = "load"
    /\ LET r == IF plan = "audit" THEN load_devices(devices_file)
                ELSE load_hosts(devices_file)
       IN  IF r.raised # ""
           THEN /\ main_pc' = "exited"
                /\ fatal' = r.raised
                /\ exit_status' = 1
                /\ hosts' = hosts
           ELSE /\ main_pc' = "prompt"
                /\ hosts' = r.hosts
                /\ UNCHANGED <<fatal, exit_status>>
    /\ UNCHANGED <<inputs, alone, futs, results, console, report, interrupted>>

\* input("Username: "), getpass.getpass("Password: "), then the with statement
\* opens the pool
Prompt ==
    /\ main_pc = "prompt"
    /\ main_pc' = IF hosts = <<>> THEN "collect" ELSE "submit"
    /\ UNCHANGED <<inputs, alone, hosts, futs, results, console, report, interrupted, fatal,
                   exit_status>>

\* futs = [ex.submit(...) for h in hosts]: one submit per host, in list order
Submit ==
    /\ main_pc = "submit"
    /\ Len(futs) < Len(hosts)
    /\ futs' = Append(futs, new_task(hosts[Len(futs) + 1]))
    /\ main_pc' = IF Len(futs) + 1 = Len(hosts) THEN "collect" ELSE "submit"
    /\ UNCHANGED <<inputs, alone, hosts, results, console, report, interrupted, fatal,
                   exit_status>>

(***************************************************************************)
(* The Device Worker: check_host and apply_one                             *)
(***************************************************************************)

\* one answer of the session to a required step
returned(step, text) ==
    [step |-> step, ok |-> TRUE, text |-> text, err |-> [cls |-> "", msg |-> ""]]

raised(step, e) == [step |-> step, ok |-> FALSE, text |-> <<>>, err |-> e]

\* `except Exception as e: return (host, False, ...)`: an exception raised
\* inside the try block; one the clause does not catch leaves the worker
\* after the finally block and is stored in the future
raise_in_try(t, step, e) ==
    IF except_Exception(e)
    THEN [t EXCEPT !.resp = Append(@, raised(step, e)),
                   !.ret = <<IF plan = "audit" THEN check_host_except(t.host, e)
                                               ELSE apply_one_except(t.host, e)>>,
                   !.pc = "finally"]
    ELSE [t EXCEPT !.resp = Append(@, raised(step, e)),
                   !.exc = <<e>>,
                   !.pc = "finally"]

\* faulty variant of finally_block: the disconnect sits at the end of the try
\* body, so it runs only when the worker returns from there
finally_block_on_success(t, disconnect_raised) ==
    [t EXCEPT !.disconnects = IF t.conn /\ t.ret # <<>> /\ t.ret[1][2] THEN @ + 1 ELSE @,
              !.pc = "done"]

\* the finally block: `if conn: conn.disconnect()` inside try/except-pass;
\* disconnect_raised tells whether disconnect() raised
finally_block(t, disconnect_raised) ==
    [t EXCEPT !.disconnects = IF t.conn THEN @ + 1 ELSE @,
              !.pc = "done"]

\* the work queue is first in first out, and a thread takes the next item
\* only when fewer than max_workers threads are busy
may_start(i) ==
    /\ futs[i].pc = "queued"
    /\ \A j \in 1..(i - 1) : futs[j].pc # "queued"
    /\ running_count < pool_size

\* a pool thread takes the task from the work queue and calls the worker
Start(i) ==
    /\ may_start(i)
    /\ futs' = [futs EXCEPT ![i].pc = "connect"]
    /\ UNCHANGED <<inputs, alone, main_pc, hosts, results, console, report, interrupted, fatal,
                   exit_status>>

\* conn = ConnectHandler(...) returned: the session is open
connect_returns(t) ==
    [t EXCEPT !.conn = TRUE, !.resp = Append(@, returned("connect", <<>>)), !.pc = "pager"]

\* a step of the try block raises e after the command went out
step_raises(t, step, e) == raise_in_try([t EXCEPT !.sent = Append(@, step)], step, e)

\* faulty variant of pager_swallowed: the pager command sits in the try block
\* without a handler of its own, so its exception ends the plan
pager_required(t, pager_raised) ==
    IF pager_raised
    THEN step_raises(t, "pager", CHOOSE e \in StepErrors : TRUE)
    ELSE [t EXCEPT !.sent = Append(@, "pager"),
                   !.pc = IF plan = "audit" THEN "capture" ELSE "config_mode"]

\* conn.send_command("set cli screen-length 0") inside try/except-pass: the
\* next step follows whether it returned or raised
pager_swallowed(t, pager_raised) ==
    [t EXCEPT !.sent = Append(@, "pager"),
              !.pc = IF plan = "audit" THEN "capture" ELSE "config_mode"]

\* check_host: out = conn.send_command(cmd), the count, the return
capture_returns(t, out) ==
    [t EXCEPT !.sent = Append(@, "capture"),
              !.resp = Append(@, returned("capture", out)),
              !.ret = <<check_host_return(t.host, matches_of[out])>>,
              !.pc = "finally"]

\* apply_one: a required step that returns nothing the worker keeps
\* (conn.config_mode(), conn.send_config_set([CMD1, CMD2], exit_config_mode=False))
step_returns(t, step, next) ==
    [t EXCEPT !.sent = Append(@, step),
              !.resp = Append(@, returned(step, <<>>)),
              !.pc = next]

\* faulty variant of after_config_mode: the push is left out
after_config_mode_commit == "commit"

\* the statement that follows conn.config_mode()
after_config_mode == "send_config_set"

\* commit = conn.send_command_timing("commit")
commit_returns(t, out) ==
    [t EXCEPT !.sent = Append(@, "commit"),
              !.resp = Append(@, returned("commit", out)),
              !.commit = out,
              !.pc = "exit_config_mode"]

\* faulty variant of exit_swallowed: conn.exit_config_mode() sits in the try
\* block without a handler of its own
exit_required(t, exit_raised) ==
    IF exit_raised
    THEN step_raises(t, "exit_config_mode", CHOOSE e \in StepErrors : TRUE)
    ELSE [t EXCEPT !.sent = Append(@, "exit_config_mode"), !.pc = "verify"]

\* conn.exit_config_mode() inside try/except-pass: the verification follows
\* whether it returned or raised
exit_swallowed(t, exit_raised) ==
    [t EXCEPT !.sent = Append(@, "exit_config_mode"), !.pc = "verify"]

\* ok = verify(conn), then the return
verify_returns(t, out) ==
    [t EXCEPT !.sent = Append(@, "verify"),
              !.resp = Append(@, returned("verify", out)),
              !.ret = <<apply_one_return(t.host, committed_of[t.commit], verify_of[out])>>,
              !.pc = "finally"]

\* conn = ConnectHandler(...): the session opens, or the transport raises
ConnectHandler(i) ==
    /\ futs[i].pc = "connect"
    /\ \/ futs' = [futs EXCEPT ![i] = connect_returns(@)]
       \/ \E e \in ConnectErrors :
              futs' = [futs EXCEPT ![i] = raise_in_try(@, "connect", e)]
    /\ UNCHANGED <<inputs, alone, main_pc, hosts, results, console, report, interrupted, fatal,
                   exit_status>>

\* the pager command, best effort
DisablePager(i) ==
    /\ futs[i].pc = "pager"
    /\ \E pager_raised \in BOOLEAN :
           futs' = [futs EXCEPT ![i] = pager_swallowed(@, pager_raised)]
    /\ UNCHANGED <<inputs, alone, main_pc, hosts, results, console, report, interrupted, fatal,
                   exit_status>>

\* check_host: the capture, the count, the return
Capture(i) ==
    /\ futs[i].pc = "capture"
    /\ \/ \E out \in CaptureOutputs :
              futs' = [futs EXCEPT ![i] = capture_returns(@, out)]
       \/ \E e \in StepErrors :
              futs' = [futs EXCEPT ![i] = step_raises(@, "capture", e)]
    /\ UNCHANGED <<inputs, alone, main_pc, hosts, results, console, report, interrupted, fatal,
                   exit_status>>

\* apply_one: a required step that returns nothing the worker keeps
RequiredStep(i, step, next) ==
    /\ futs[i].pc = step
    /\ \/ futs' = [futs EXCEPT ![i] = step_returns(@, step, next)]
       \/ \E e \in StepErrors :
              futs' = [futs EXCEPT ![i] = step_raises(@, step, e)]
    /\ UNCHANGED <<inputs, alone, main_pc, hosts, results, console, report, interrupted, fatal,
                   exit_status>>

ConfigMode(i) == RequiredStep(i, "config_mode", after_config_mode)

SendConfigSet(i) == RequiredStep(i, "send_config_set", "commit")

\* commit = conn.send_command_timing("commit")
Commit(i) ==
    /\ futs[i].pc = "commit"
    /\ \/ \E out \in CommitOutputs :
              futs' = [futs EXCEPT ![i] = commit_returns(@, out)]
       \/ \E e \in StepErrors :
              futs' = [futs EXCEPT ![i] = step_raises(@, "commit", e)]
    /\ UNCHANGED <<inputs, alone, main_pc, hosts, results, console, report, interrupted, fatal,
                   exit_status>>

\* conn.exit_config_mode(), best effort
ExitConfigMode(i) ==
    /\ futs[i].pc = "exit_config_mode"
    /\ \E exit_raised \in BOOLEAN :
           futs' = [futs EXCEPT ![i] = exit_swallowed(@, exit_raised)]
    /\ UNCHANGED <<inputs, alone, main_pc, hosts, results, console, report, interrupted, fatal,
                   exit_status>>

\* ok = verify(conn), then the return
Verify(i) ==
    /\ futs[i].pc = "verify"
    /\ \/ \E out \in VerifyOutputs :
              futs' = [futs EXCEPT ![i] = verify_returns(@, out)]
       \/ \E e \in StepErrors :
              futs' = [futs EXCEPT ![i] = step_raises(@, "verify", e)]
    /\ UNCHANGED <<inputs, alone, main_pc, hosts, results, console, report, interrupted, fatal,
                   exit_status>>

\* the finally block runs, then the future holds the tuple (or the exception)
Finally(i) ==
    /\ futs[i].pc = "finally"
    /\ \E disconnect_raised \in BOOLEAN :
           futs' = [futs EXCEPT ![i] = finally_block(@, disconnect_raised)]
    /\ UNCHANGED <<inputs, alone, main_pc, hosts, results, console, report, interrupted, fatal,
                   exit_status>>

(***************************************************************************)
(* main(): collecting, the report, the exit                                *)
(***************************************************************************)

\* faulty variant of status_line: every FAIL is printed with its error
status_line_error(row) ==
    LET status == IF row[2] /\ row[3] /\ row[4] THEN "OK" ELSE "FAIL"
    IN  <<row[1], status, IF status = "OK" THEN <<>> ELSE <<"error", row[5]>>>>

\* set-snmp.py, the line printed per collected row: the host, OK or FAIL,
\* and for a FAIL either the error or the two flags
status_line(row) ==
    LET status == IF row[2] /\ row[3] /\ row[4] THEN "OK" ELSE "FAIL"
        extra  == IF status = "OK" THEN <<>>
                  ELSE IF ~row[2] THEN <<"error", row[5]>>
                  ELSE <<"committed", row[3], "verified", row[4]>>
    IN  <<row[1], status, extra>>

\* faulty variant of append_row: the rows are kept by host, one per host
append_row_by_host(rows, row) ==
    IF \E k \in 1..Len(rows) : rows[k][1] = row[1] THEN rows ELSE Append(rows, row)

\* results.append(fut.result()) / rows.append((host, connected, ...))
append_row(rows, row) == Append(rows, row)

\* `for fut in as_completed(futs)`: a finished future not yet handed out;
\* fut.result() gives the tuple or raises what the worker let through
Collect(i) ==
    /\ main_pc = "collect"
    /\ futs[i].pc = "done"
    /\ ~futs[i].yielded
    /\ futs' = [futs EXCEPT ![i].yielded = TRUE]
    /\ IF futs[i].exc # <<>>
       THEN /\ main_pc' = "unwind"
            /\ fatal' = futs[i].exc[1].cls
            /\ UNCHANGED <<results, console>>
       ELSE /\ results' = append_row(results, futs[i].ret[1])
            /\ console' = IF plan = "audit" THEN console
                          ELSE Append(console, status_line(futs[i].ret[1]))
            /\ UNCHANGED <<main_pc, fatal>>
    /\ UNCHANGED <<inputs, alone, hosts, report, interrupted, exit_status>>

\* faulty variant of as_completed_exhausted: the report is written from inside
\* the loop, after the first future
as_completed_first == \E i \in 1..Len(futs) : futs[i].yielded

\* the as_completed loop has handed out every future
as_completed_exhausted == \A i \in 1..Len(futs) : futs[i].yielded

\* faulty variant of is_reachable: the lists are built from all results
is_reachable_any(r) == TRUE

\* r[1] of the audit's tuples: reachable
is_reachable(r) == r[2]

\* not r[1]
is_unreachable(r) == ~r[2]

\* r[2] of the audit's tuples: found
is_found(r) == r[3]

is_not_found(r) == ~r[3]

\* [r[0] for r in rows]
hosts_of(rows) == [i \in 1..Len(rows) |-> rows[i][1]]

\* set-snmp.py: `c and m and v` of a row
is_ok(r) == r[2] /\ r[3] /\ r[4]

\* set-snmp.py: v of a row
is_verified(r) == r[4]

\* the audit's console summary: the five counts and the unreachable hosts
audit_summary(rows, found, missing) ==
    [total |-> Len(rows),
     reachable |-> Len(SelectSeq(rows, is_reachable)),
     unreachable |-> Len(SelectSeq(rows, is_unreachable)),
     found |-> Len(found),
     missing |-> Len(missing),
     unreachable_hosts |-> sorted(hosts_of(SelectSeq(rows, is_unreachable)))]

\* the remediation's summary line: total, ok, verified
remediation_summary(rows) ==
    [total |-> Len(rows),
     ok |-> Len(SelectSeq(rows, is_ok)),
     verified |-> Len(SelectSeq(rows, is_verified))]

\* after the with block: write_csv(results, args.out), the two sorted text
\* lists and the console summary (audit); the CSV of rows and the summary line
\* (remediation); then main() returns
Report ==
    /\ main_pc = "collect"
    /\ Len(futs) = Len(hosts)
    /\ as_completed_exhausted
    /\ report' = IF plan = "audit"
                 THEN LET reachable == SelectSeq(results, is_reachable)
                          found == sorted(hosts_of(SelectSeq(reachable, is_found)))
                          missing == sorted(hosts_of(SelectSeq(reachable, is_not_found)))
                      IN  [written |-> TRUE, csv |-> results, have |-> found,
                           missing |-> missing,
                           summary |-> audit_summary(results, found, missing)]
                 ELSE [written |-> TRUE, csv |-> results, have |-> <<>>, missing |-> <<>>,
                       summary |-> remediation_summary(results)]
    /\ main_pc' = "exited"
    /\ exit_status' = 0
    /\ UNCHANGED <<inputs, alone, hosts, futs, results, console, interrupted, fatal>>

\* Ctrl-C: KeyboardInterrupt is raised in the main thread, at the prompt or
\* inside the with block; the block's exit then runs shutdown(wait=True)
Interrupt ==
    /\ main_pc \in {"prompt", "submit", "collect"}
    /\ interrupted' = TRUE
    /\ fatal' = "KeyboardInterrupt"
    /\ main_pc' = "unwind"
    /\ UNCHANGED <<inputs, alone, hosts, futs, results, console, report, exit_status>>

\* faulty variant of pool_joined: shutdown(wait=False)
pool_joined_nowait == TRUE

\* ThreadPoolExecutor.__exit__: shutdown(wait=True) returns when the threads
\* have run every queued work item
pool_joined == \A i \in 1..Len(futs) : futs[i].pc = "done"

\* the exception leaves main(): check-controlplane.py catches KeyboardInterrupt
\* and calls sys.exit(1); set-snmp.py has no handler and the interpreter ends
\* the process on SIGINT (status 130); any other exception ends it with 1
Exit ==
    /\ main_pc = "unwind"
    /\ pool_joined
    /\ main_pc' = "exited"
    /\ exit_status' = IF fatal = "KeyboardInterrupt" /\ plan = "remediation" THEN 130 ELSE 1
    /\ UNCHANGED <<inputs, alone, hosts, futs, results, console, report, interrupted, fatal>>

Next ==
    \/ Load
    \/ Prompt
    \/ Submit
    \/ Interrupt
    \/ Report
    \/ Exit
    \/ \E i \in 1..Len(futs) : Start(i)
    \/ \E i \in 1..Len(futs) : ConnectHandler(i)
    \/ \E i \in 1..Len(futs) : DisablePager(i)
    \/ \E i \in 1..Len(futs) : Capture(i)
    \/ \E i \in 1..Len(futs) : ConfigMode(i)
    \/ \E i \in 1..Len(futs) : SendConfigSet(i)
    \/ \E i \in 1..Len(futs) : Commit(i)
    \/ \E i \in 1..Len(futs) : ExitConfigMode(i)
    \/ \E i \in 1..Len(futs) : Verify(i)
    \/ \E i \in 1..Len(futs) : Finally(i)
    \/ \E i \in 1..Len(futs) : Collect(i)

Spec == Init /\ [][Next]_vars

(***************************************************************************)
(* One worker call on its own: check_host(host, ...) or apply_one(host, ...) *)
(* against a session whose every exception is recorded, the ones the       *)
(* worker swallows included                                                *)
(***************************************************************************)

\* what main() owns; a stand-alone call leaves it alone
main_state ==
    <<devices_file, args_workers, main_pc, hosts, futs, results, console, report,
      interrupted, fatal, exit_status>>

\* the host argument of the call
CallHosts == {<<"r", "1">>, <<"r", "2">>}

\* the worker function has been entered with one host
InitCall ==
    /\ plan \in Plans
    /\ devices_file = [exists |-> FALSE, lines |-> <<>>]
    /\ args_workers = 0
    /\ main_pc = "load"
    /\ hosts = <<>>
    /\ futs = <<>>
    /\ results = <<>>
    /\ console = <<>>
    /\ report = no_report
    /\ interrupted = FALSE
    /\ fatal = ""
    /\ exit_status = -1
    /\ dev \in {[task |-> [new_task(h) EXCEPT !.pc = "connect"], swallowed |-> {}] :
                    h \in CallHosts}
    /\ tx = no_tx

\* the exception of step was caught by an `except Exception: pass`
swallow(step, did_raise) == IF did_raise THEN {step} ELSE {}

CallConnectHandler ==
    /\ dev.task.pc = "connect"
    /\ \/ dev' = [dev EXCEPT !.task = connect_returns(@)]
       \/ \E e \in ConnectErrors : dev' = [dev EXCEPT !.task = raise_in_try(@, "connect", e)]
    /\ UNCHANGED <<plan, main_state, tx>>

CallDisablePager ==
    /\ dev.task.pc = "pager"
    /\ \E pager_raised \in BOOLEAN :
           dev' = [dev EXCEPT !.task = pager_swallowed(@, pager_raised),
                              !.swallowed = @ \cup swallow("pager", pager_raised)]
    /\ UNCHANGED <<plan, main_state, tx>>

CallCapture ==
    /\ dev.task.pc = "capture"
    /\ \/ \E out \in CaptureOutputs : dev' = [dev EXCEPT !.task = capture_returns(@, out)]
       \/ \E e \in StepErrors : dev' = [dev EXCEPT !.task = step_raises(@, "capture", e)]
    /\ UNCHANGED <<plan, main_state, tx>>

CallRequiredStep(step, next) ==
    /\ dev.task.pc = step
    /\ \/ dev' = [dev EXCEPT !.task = step_returns(@, step, next)]
       \/ \E e \in StepErrors : dev' = [dev EXCEPT !.task = step_raises(@, step, e)]
    /\ UNCHANGED <<plan, main_state, tx>>

CallConfigMode == CallRequiredStep("config_mode", after_config_mode)

CallSendConfigSet == CallRequiredStep("send_config_set", "commit")

CallCommit ==
    /\ dev.task.pc = "commit"
    /\ \/ \E out \in CommitOutputs : dev' = [dev EXCEPT !.task = commit_returns(@, out)]
       \/ \E e \in StepErrors : dev' = [dev EXCEPT !.task = step_raises(@, "commit", e)]
    /\ UNCHANGED <<plan, main_state, tx>>

CallExitConfigMode ==
    /\ dev.task.pc = "exit_config_mode"
    /\ \E exit_raised \in BOOLEAN :
           dev' = [dev EXCEPT !.task = exit_swallowed(@, exit_raised),
                              !.swallowed = @ \cup swallow("exit_config_mode", exit_raised)]
    /\ UNCHANGED <<plan, main_state, tx>>

CallVerify ==
    /\ dev.task.pc = "verify"
    /\ \/ \E out \in VerifyOutputs : dev' = [dev EXCEPT !.task = verify_returns(@, out)]
       \/ \E e \in StepErrors : dev' = [dev EXCEPT !.task = step_raises(@, "verify", e)]
    /\ UNCHANGED <<plan, main_state, tx>>

CallFinally ==
    /\ dev.task.pc = "finally"
    /\ \E disconnect_raised \in BOOLEAN :
           dev' = [dev EXCEPT !.task = finally_block(@, disconnect_raised),
                              !.swallowed = @ \cup swallow("disconnect",
                                                           dev.task.conn /\ disconnect_raised)]
    /\ UNCHANGED <<plan, main_state, tx>>

NextCall ==
    \/ CallConnectHandler
    \/ CallDisablePager
    \/ CallCapture
    \/ CallConfigMode
    \/ CallSendConfigSet
    \/ CallCommit
    \/ CallExitConfigMode
    \/ CallVerify
    \/ CallFinally

SpecCall == InitCall /\ [][NextCall]_vars

(***************************************************************************)
(* One call of a text function on its own: the counting loop of            *)
(* check_host, verify() after its capture, canonicalize(), over captures   *)
(* put together from lines of known kinds                                  *)
(***************************************************************************)

\* the most lines a capture is put together from
MaxTextLines == 3

\* s with every blank widened to blank, tab, blank
RECURSIVE respace(_)
respace(s) ==
    IF s = <<>> THEN <<>>
    ELSE (IF s[1] = " " THEN <<" ", "\t", " ">> ELSE <<s[1]>>) \o respace(Tail(s))

\* s with its first blank replaced by c
replace_first_blank(s, c) ==
    LET k == CHOOSE i \in 1..Len(s) : s[i] = " " /\ \A j \in 1..(i - 1) : s[j] # " "
    IN  SubSeq(s, 1, k - 1) \o c \o SubSeq(s, k + 1, Len(s))

\* how the device ends a line
CRLF == <<"\r", "\n">>

\* lines of `show configuration firewall family inet | display set`: hit tells
\* whether the line holds the target once blanks are normalised
CaptureForms ==
    [exact  |-> [text |-> TARGET_SUBSTR, end |-> NL, hit |-> TRUE],
     spaced |-> [text |-> <<" ", " ">> \o respace(TARGET_SUBSTR) \o <<" ", "\t">>,
                 end |-> CRLF, hit |-> TRUE],
     longer |-> [text |-> <<"#", " ">> \o CMD1, end |-> NL, hit |-> TRUE],
     glued  |-> [text |-> replace_first_blank(TARGET_SUBSTR, <<>>), end |-> CRLF,
                 hit |-> FALSE],
     broken |-> [text |-> replace_first_blank(TARGET_SUBSTR, NL), end |-> NL, hit |-> FALSE],
     blank  |-> [text |-> <<" ", " ">>, end |-> NL, hit |-> FALSE]]

\* lines of the verification capture: has names the pushed line the
\* normalised line equals, "" when neither
VerifyForms ==
    [cmd1        |-> [text |-> CMD1, end |-> NL, has |-> "CMD1"],
     cmd1_spaced |-> [text |-> <<"\t">> \o respace(CMD1) \o <<" ">>, end |-> CRLF,
                      has |-> "CMD1"],
     cmd2        |-> [text |-> CMD2, end |-> NL, has |-> "CMD2"],
     cmd2_longer |-> [text |-> CMD2 \o <<"0">>, end |-> NL, has |-> ""],
     base        |-> [text |-> VERIFY_BASE, end |-> CRLF, has |-> ""]]

\* the capture made of the lines named by names, each with its line end
RECURSIVE assemble(_, _)
assemble(forms, names) ==
    IF names = <<>> THEN <<>>
    ELSE forms[names[1]].text \o forms[names[1]].end \o assemble(forms, Tail(names))

text_call(fn, text, names) ==
    [fn |-> fn, pc |-> "called", forms |-> names, text |-> text, out |-> <<>>]

\* one text function is about to be called on one text
InitText ==
    /\ plan = "audit"
    /\ devices_file = [exists |-> FALSE, lines |-> <<>>]
    /\ args_workers = 0
    /\ main_pc = "load"
    /\ hosts = <<>>
    /\ futs = <<>>
    /\ results = <<>>
    /\ console = <<>>
    /\ report = no_report
    /\ interrupted = FALSE
    /\ fatal = ""
    /\ exit_status = -1
    /\ dev = no_dev
    /\ tx \in {text_call("count_matches", assemble(CaptureForms, names), names) :
                   names \in SeqsUpTo(DOMAIN CaptureForms, MaxTextLines)}
              \cup {text_call("verify", assemble(VerifyForms, names), names) :
                   names \in SeqsUpTo(DOMAIN VerifyForms, MaxTextLines)}
              \cup {text_call("canonicalize", CaptureForms[name].text, <<name>>) :
                   name \in DOMAIN CaptureForms}

\* the counting loop of check_host and its return
TextCountMatches ==
    /\ tx.fn = "count_matches"
    /\ tx.pc = "called"
    /\ tx' = [tx EXCEPT !.out = check_host_return(<<>>, count_matches(tx.text)),
                        !.pc = "returned"]
    /\ UNCHANGED <<plan, main_state, dev>>

\* verify() once the capture is in
TextVerify ==
    /\ tx.fn = "verify"
    /\ tx.pc = "called"
    /\ tx' = [tx EXCEPT !.out = <<verify(tx.text)>>, !.pc = "returned"]
    /\ UNCHANGED <<plan, main_state, dev>>

\* canonicalize(), on a line and then on its own result
TextCanonicalize ==
    /\ tx.fn = "canonicalize"
    /\ \/ /\ tx.pc = "called"
          /\ tx' = [tx EXCEPT !.out = <<canonicalize(tx.text)>>, !.pc = "once"]
       \/ /\ tx.pc = "once"
          /\ tx' = [tx EXCEPT !.out = Append(@, canonicalize(tx.out[1])), !.pc = "returned"]
    /\ UNCHANGED <<plan, main_state, dev>>

NextText ==
    \/ TextCountMatches
    \/ TextVerify
    \/ TextCanonicalize

SpecText == InitText /\ [][NextText]_vars

(***************************************************************************)
(* Properties                                                              *)
(***************************************************************************)

\* the fields of an Outcome tuple: (host, reachable, found | committed,
\* matches | verified, error)
Host(o) == o[1]

Reachable(o) == o[2]

OperationSucceeded(o) == o[3]

Error(o) == o[5]

\* the run reached the end of main(): the report is on disk
Completed == main_pc = "exited" /\ report.written

\* how many entries of a sequence of tuples carry host h
CountHost(rows, h) == Cardinality({k \in 1..Len(rows) : rows[k][1] = h})

\* the configured concurrency limit W of the run
ConfiguredWorkers == IF plan = "audit" THEN args_workers ELSE WORKERS

\* the session of task t is open: ConnectHandler returned, disconnect not yet called
SessionOpen(t) == t.conn /\ t.disconnects = 0

\* the Outcome that the answers task t received determine, from the last
\* answer of its log alone
ExpectedOutcome(t) ==
    LET last == t.resp[Len(t.resp)]
    IN  IF ~last.ok
        THEN IF plan = "audit" THEN <<t.host, FALSE, FALSE, 0, last.err.msg>>
                               ELSE <<t.host, FALSE, FALSE, FALSE, last.err.msg>>
        ELSE IF plan = "audit"
        THEN <<t.host, TRUE, matches_of[last.text] > 0, matches_of[last.text], "">>
        ELSE <<t.host, TRUE, committed_of[t.commit], verify_of[last.text], "">>

\* C1: when a run over a non-empty device list of size n completes, the
\* Result Set and the CSV hold exactly n Outcomes, and every host has as many
\* Outcomes as it has entries in the list (none dropped, none recorded twice).
C1_OneOutcomePerDevice ==
    (Completed /\ hosts # <<>>) =>
        /\ Len(results) = Len(hosts)
        /\ Len(report.csv) = Len(hosts)
        /\ \A i \in 1..Len(hosts) :
               Cardinality({k \in 1..Len(hosts) : hosts[k] = hosts[i]})
                   = CountHost(results, hosts[i])

\* C1 witness: a completed run over a list that names one host twice, where
\* one of the two workers failed and the other did not.
C1_Witness ==
    /\ Completed
    /\ Len(hosts) = 2
    /\ hosts[1] = hosts[2]
    /\ Reachable(results[1]) # Reachable(results[2])

\* C2: every session that was opened has been disconnected once the worker is
\* done, on the normal path and after a step raised; a future is handed to the
\* orchestrator only after that; and the finally block leaves the Outcome the
\* worker had determined as it was, whether or not disconnect() raised.
C2_TeardownOnEveryPath ==
    /\ [](\A i \in 1..Len(futs) :
              /\ (futs[i].pc = "done" /\ futs[i].conn) => futs[i].disconnects = 1
              /\ futs[i].yielded => futs[i].pc = "done"
              /\ futs[i].disconnects <= 1)
    /\ [][\A i \in 1..Len(futs) :
              futs[i].pc = "finally" =>
                  /\ futs'[i].ret = futs[i].ret
                  /\ futs'[i].exc = futs[i].exc]_vars

\* C2 witness: a worker whose session was opened, a later step raised, the
\* session was disconnected and the Outcome then collected.
C2_Witness ==
    \E i \in 1..Len(futs) :
        /\ futs[i].yielded
        /\ futs[i].conn
        /\ futs[i].disconnects = 1
        /\ ~futs[i].resp[Len(futs[i].resp)].ok

\* C3 (as claimed): a worker whose session was opened returns reachable=true,
\* also when a later required step failed; reachable=false is returned only
\* when opening the session failed.
C3_StepFailureKeepsReachable ==
    \A i \in 1..Len(futs) :
        futs[i].ret # <<>> => (Reachable(futs[i].ret[1]) <=> futs[i].conn)

\* C4: when opening the session failed the worker has sent no command, and its
\* Outcome is reachable=false, both other fields false / zero, with error the
\* message of the transport failure.
C4_ConnectFailure ==
    \A i \in 1..Len(futs) :
        /\ ~futs[i].conn => futs[i].sent = <<>>
        /\ (futs[i].ret # <<>> /\ ~futs[i].conn) =>
               /\ Len(futs[i].resp) = 1
               /\ futs[i].resp[1].step = "connect"
               /\ futs[i].resp[1].err \in ConnectErrors
               /\ futs[i].ret[1] =
                      <<futs[i].host, FALSE, FALSE,
                        IF plan = "audit" THEN 0 ELSE FALSE,
                        futs[i].resp[1].err.msg>>
               /\ Error(futs[i].ret[1]) # ""

\* C4 witness: a worker that returned after ConnectHandler raised.
C4_Witness ==
    \E i \in 1..Len(futs) :
        /\ futs[i].pc = "done"
        /\ ~futs[i].conn
        /\ futs[i].ret # <<>>

\* C5: no exception of a worker reaches the orchestrator; the Outcome of every
\* device is the one its own session's answers determine, whatever happened on
\* the other devices; and a run that completes has started and finished the
\* task of every device.
C5_Isolation ==
    /\ fatal \notin ExceptionClasses
    /\ \A i \in 1..Len(futs) :
           /\ futs[i].exc = <<>>
           /\ futs[i].ret # <<>> => futs[i].ret[1] = ExpectedOutcome(futs[i])
    /\ Completed =>
           /\ Len(futs) = Len(hosts)
           /\ \A i \in 1..Len(futs) : futs[i].pc = "done" /\ futs[i].ret # <<>>

\* C5 witness: a completed run where one device failed at a step after its
\* session was opened and another device succeeded in full.
C5_Witness ==
    /\ Completed
    /\ \E i, j \in 1..Len(futs) :
           /\ futs[i].conn
           /\ ~futs[i].resp[Len(futs[i].resp)].ok
           /\ Reachable(futs[j].ret[1])
           /\ OperationSucceeded(futs[j].ret[1])

\* C6: at every moment the number of executing workers, and so the number of
\* sessions open or being opened, is at most max(1, W).
C6_BoundedConcurrency ==
    LET limit == IF ConfiguredWorkers >= 1 THEN ConfiguredWorkers ELSE 1
    IN  /\ running_count <= limit
        /\ Cardinality({i \in 1..Len(futs) : SessionOpen(futs[i])}) <= limit

\* C6 witness: the pool is full and a device waits in the queue.
C6_Witness ==
    /\ running_count = pool_size
    /\ \E i \in 1..Len(futs) : futs[i].pc = "queued"
    /\ \E i \in 1..Len(futs) : SessionOpen(futs[i])

\* C7: the report is written only when every device of the list has a task
\* that is done and collected, every opened session has been disconnected, and
\* the CSV holds the whole Result Set.
C7_ReportAfterJoin ==
    report.written =>
        /\ Len(futs) = Len(hosts)
        /\ \A i \in 1..Len(futs) :
               /\ futs[i].pc = "done"
               /\ futs[i].yielded
               /\ ~SessionOpen(futs[i])
        /\ Len(results) = Len(hosts)
        /\ report.csv = results

\* C7 witness: a report over two devices whose sessions were both opened.
C7_Witness ==
    /\ report.written
    /\ Len(futs) = 2
    /\ \A i \in 1..Len(futs) : futs[i].conn

\* C8 (as claimed): a run whose host file holds no usable address ends, when
\* not interrupted, with a fatal error, no task, no report and a non-zero status.
C8_EmptyInputFatal ==
    (/\ main_pc = "exited"
     /\ ~interrupted
     /\ devices_file.exists
     /\ parse_hosts(devices_file.lines) = <<>>) =>
        /\ fatal # ""
        /\ futs = <<>>
        /\ ~report.written
        /\ exit_status # 0

\* C9: when the process exits after an interrupt, no worker is still running,
\* every session that was opened has been disconnected, and the status is
\* not zero.
C9_InterruptClosesSessions ==
    (main_pc = "exited" /\ interrupted) =>
        /\ \A i \in 1..Len(futs) : ~Running(futs[i]) /\ ~SessionOpen(futs[i])
        /\ exit_status > 0

\* C9 witness: the process exited after an interrupt that came while a
\* remediation session was in use; the commit was sent and the session closed.
C9_Witness ==
    /\ main_pc = "exited"
    /\ interrupted
    /\ \E i \in 1..Len(futs) :
           /\ ~futs[i].yielded
           /\ \E k \in 1..Len(futs[i].sent) : futs[i].sent[k] = "commit"
           /\ futs[i].disconnects = 1

\* C10 (as claimed): the rows of the CSV are in host order, whatever order the
\* workers finished in.
C10_CsvSortedByHost ==
    report.written =>
        \A k \in 1..(Len(report.csv) - 1) :
            ~str_less(Host(report.csv[k + 1]), Host(report.csv[k]))


\* C11: a failure of the best-effort pager command never ends the plan and
\* never shows in the Outcome: no answer of the pager is ever handled as a
\* failure, and when the pager command raised, the worker still goes on to the
\* required steps and returns exactly the Outcome that the answers to the
\* required steps determine, the one it returns when the pager command works.
C11_BestEffortFailureIgnored ==
    LET t == dev.task
    IN  /\ \A k \in 1..Len(t.resp) : t.resp[k].step # "pager"
        /\ "pager" \in dev.swallowed =>
               /\ t.pc \notin {"connect", "pager"}
               /\ t.pc \in {"finally", "done"} =>
                      /\ Len(t.sent) >= 2
                      /\ t.sent[2] = (IF plan = "audit" THEN "capture" ELSE "config_mode")
                      /\ t.exc = <<>>
                      /\ t.ret = <<ExpectedOutcome(t)>>

\* the pager command raised and the worker returned a reachable Outcome
C11_Witness ==
    /\ "pager" \in dev.swallowed
    /\ dev.task.pc = "done"
    /\ dev.task.ret # <<>>
    /\ Reachable(dev.task.ret[1])
    /\ Error(dev.task.ret[1]) = ""


\* the commit command of task t was answered (send_command_timing returned)
CommitAnswered(t) == \E k \in 1..Len(t.resp) : t.resp[k].step = "commit" /\ t.resp[k].ok

\* C12: in a remediation call, once the commit command was answered, the
\* committed flag of the returned Outcome tells whether that answer contained
\* 'commit complete' in any letter case, whatever the later steps do.
C12_CommittedReflectsCommitResponse ==
    LET t == dev.task
    IN  (plan = "remediation" /\ t.ret # <<>> /\ CommitAnswered(t)) =>
            OperationSucceeded(t.ret[1]) = committed_of[t.commit]


\* the last answer task t received
LastAnswer(t) == t.resp[Len(t.resp)]

\* C13: when the commit command is answered without 'commit complete' and no
\* required step raises, the worker still sends the verification capture and
\* returns reachable=true, committed=false, verified as the verification
\* capture decides, and an empty error.
C13_UnconfirmedCommitIsNotAnError ==
    LET t == dev.task
    IN  (plan = "remediation" /\ CommitAnswered(t) /\ ~committed_of[t.commit]
             /\ t.pc \in {"finally", "done"}) =>
            /\ t.sent = <<"pager", "config_mode", "send_config_set", "commit",
                          "exit_config_mode", "verify">>
            /\ LastAnswer(t).ok =>
                   t.ret = <<<<t.host, TRUE, FALSE, verify_of[LastAnswer(t).text], "">>>>

\* an unconfirmed commit whose verification capture shows both lines
C13_Witness ==
    /\ plan = "remediation"
    /\ dev.task.pc = "done"
    /\ CommitAnswered(dev.task)
    /\ dev.task.ret = <<<<dev.task.host, TRUE, FALSE, TRUE, "">>>>

\* C14: commit and verification are independent checks: among the reachable
\* Outcomes of a remediation run the committed flag is a function of the
\* commit answer alone and the verified flag a function of the verification
\* capture alone, and a row with committed=true and verified=false is printed
\* as FAIL with committed=True verified=False, not with an error.
C14_CommitAndVerifyIndependent ==
    plan = "remediation" =>
        /\ \A i, j \in 1..Len(futs) :
               LET a == futs[i]
                   b == futs[j]
               IN  (a.ret # <<>> /\ b.ret # <<>> /\ Reachable(a.ret[1])
                        /\ Reachable(b.ret[1])) =>
                       /\ a.commit = b.commit => a.ret[1][3] = b.ret[1][3]
                       /\ LastAnswer(a).text = LastAnswer(b).text =>
                              a.ret[1][4] = b.ret[1][4]
        /\ Len(console) = Len(results)
        /\ \A k \in 1..Len(results) :
               (results[k][2] /\ results[k][3] /\ ~results[k][4]) =>
                   console[k] = <<results[k][1], "FAIL",
                                  <<"committed", TRUE, "verified", FALSE>>>>

\* one device committed and verified, another committed with a pushed line
\* absent from the re-read, and the second was printed as FAIL with its flags
C14_Witness ==
    /\ plan = "remediation"
    /\ \E k \in 1..Len(results) :
           /\ results[k][2] /\ results[k][3] /\ ~results[k][4]
           /\ console[k][2] = "FAIL"
    /\ \E k \in 1..Len(results) : results[k][2] /\ results[k][3] /\ results[k][4]


\* how many entries of a sequence of host names are h
CountName(names, h) == Cardinality({k \in 1..Len(names) : names[k] = h})

\* how many audit Outcomes of host h are reachable with the given found flag
CountFound(rows, h, flag) ==
    Cardinality({k \in 1..Len(rows) : rows[k][1] = h /\ rows[k][2] /\ rows[k][3] = flag})

\* a sequence of host names is in ascending order
SortedNames(names) == \A k \in 1..(Len(names) - 1) : ~str_less(names[k + 1], names[k])

\* C15: after a completed audit, the have list holds one entry per reachable
\* Outcome with found=true, the missing list one entry per reachable Outcome
\* with found=false, an unreachable Outcome adds an entry to neither list and
\* one to the count of unreachable devices, and both lists are sorted by host.
C15_ListsPartitionReachable ==
    (plan = "audit" /\ report.written) =>
        /\ \A h \in {results[k][1] : k \in 1..Len(results)} :
               /\ CountName(report.have, h) = CountFound(results, h, TRUE)
               /\ CountName(report.missing, h) = CountFound(results, h, FALSE)
        /\ Len(report.have) + Len(report.missing) + report.summary.unreachable
               = Len(results)
        /\ report.summary.unreachable
               = Cardinality({k \in 1..Len(results) : ~results[k][2]})
        /\ SortedNames(report.have)
        /\ SortedNames(report.missing)

\* a completed audit of two devices: one unreachable, the other in the have list
C15_Witness ==
    /\ plan = "audit"
    /\ report.written
    /\ Len(results) = 2
    /\ Len(report.have) = 1
    /\ report.missing = <<>>
    /\ report.summary.unreachable = 1


\* how many of the lines named by names hold the target
Hits(names) == Cardinality({k \in 1..Len(names) : CaptureForms[names[k]].hit})

\* C16: the match count of a capture is the number of its lines that hold the
\* target once runs of blanks are normalised (two parts of a target broken
\* over two lines, a target with a blank or a character missing do not
\* count), found is matches > 0, the tuple is a reachable one with an empty
\* error, the empty capture counts 0, and canonicalize applied to its own
\* result returns it unchanged.
C16_MatchCount ==
    /\ (tx.fn = "count_matches" /\ tx.pc = "returned") =>
           /\ tx.out[4] = Hits(tx.forms)
           /\ tx.out[3] = (tx.out[4] > 0)
           /\ tx.out[2]
           /\ tx.out[5] = ""
           /\ tx.text = <<>> => tx.out[4] = 0
    /\ (tx.fn = "canonicalize" /\ tx.pc = "returned") => tx.out[2] = tx.out[1]

\* a capture of three lines: the target with widened blanks, the target
\* inside a longer line, and a target broken over two lines; two matches
C16_Witness ==
    /\ tx.fn = "count_matches"
    /\ tx.pc = "returned"
    /\ tx.forms = <<"spaced", "broken", "longer">>
    /\ tx.out[4] = 2
    /\ tx.out[3]

\* the set of the lines named by names, as the pushed lines they equal
Present(names) == {VerifyForms[names[k]].has : k \in 1..Len(names)}

\* C17: verify returns true exactly when both pushed lines are among the
\* normalised lines of the capture, wherever they stand in it and however
\* often they are repeated; a line that only starts with a pushed line does
\* not stand for it.
C17_VerifyIsSubsetTest ==
    (tx.fn = "verify" /\ tx.pc = "returned") =>
        tx.out[1] = ({"CMD1", "CMD2"} \subseteq Present(tx.forms))

\* the second pushed line first, then the first one twice (once with widened
\* blanks): verified
C17_Witness ==
    /\ tx.fn = "verify"
    /\ tx.pc = "returned"
    /\ tx.forms = <<"cmd2", "cmd1_spaced", "cmd1">>
    /\ tx.out[1]


\* the commands apply_one sends on an open session, in the order of its body
RemediationOrder ==
    <<"pager", "config_mode", "send_config_set", "commit", "exit_config_mode", "verify">>

\* the required step named step was answered without an exception
Answered(t, step) == \E k \in 1..Len(t.resp) : t.resp[k].step = step /\ t.resp[k].ok

\* the command named step went out on the session of t
Sent(t, step) == \E k \in 1..Len(t.sent) : t.sent[k] = step

\* C18: in a remediation call the commands go out in the order of the plan,
\* none twice and none skipped: the lines are pushed only after config_mode
\* returned, the commit only after the push returned, the verification capture
\* only after the commit was answered.
C18_StepsInOrder ==
    LET t == dev.task
    IN  plan = "remediation" =>
            /\ Len(t.sent) <= Len(RemediationOrder)
            /\ t.sent = SubSeq(RemediationOrder, 1, Len(t.sent))
            /\ Sent(t, "pager") => Answered(t, "connect")
            /\ Sent(t, "send_config_set") => Answered(t, "config_mode")
            /\ Sent(t, "commit") => Answered(t, "send_config_set")
            /\ Sent(t, "verify") => Answered(t, "commit")

\* a remediation call that went through all six commands
C18_Witness ==
    /\ plan = "remediation"
    /\ dev.task.sent = RemediationOrder
    /\ Answered(dev.task, "verify")
    /\ dev.task.pc = "done"

\* the step named step raised on the session of t and the worker handled it
Failed(t, step) == \E k \in 1..Len(t.resp) : t.resp[k].step = step /\ ~t.resp[k].ok

\* after the failure of step, task t sent nothing more, returned the reason
\* in the error field, and closed its session before it finished
EndsPlan(t, step) ==
    /\ t.sent[Len(t.sent)] = step
    /\ t.pc \in {"finally", "done"}
    /\ t.ret # <<>>
    /\ Error(t.ret[1]) = LastAnswer(t).err.msg
    /\ Error(t.ret[1]) # ""
    /\ t.pc = "done" => t.disconnects = 1

\* C19 as stated: when config_mode, send_config_set, commit, exit_config_mode
\* or a capture fails, no later command of the plan is sent, the reason is
\* in the error field and the session is closed.
C19_AnyListedStepFailureEndsPlan ==
    LET t == dev.task
    IN  /\ \A step \in {"config_mode", "send_config_set", "commit", "capture", "verify"} :
               Failed(t, step) => EndsPlan(t, step)
        /\ "exit_config_mode" \in dev.swallowed => EndsPlan(t, "exit_config_mode")

\* C19, amended: when config_mode, send_config_set, commit or a capture
\* (the audit's, or the verification's) fails, no later command of the plan
\* is sent, the reason is in the error field and the session is closed;
\* a failure of exit_config_mode is swallowed: the verification capture is
\* still sent and the Outcome is the one the required steps determine.
C19_RequiredStepFailureEndsPlan ==
    LET t == dev.task
    IN  /\ \A step \in {"config_mode", "send_config_set", "commit", "capture", "verify"} :
               Failed(t, step) => EndsPlan(t, step)
        /\ ~Failed(t, "exit_config_mode")
        /\ ("exit_config_mode" \in dev.swallowed /\ t.pc \in {"finally", "done"}) =>
               /\ Sent(t, "verify")
               /\ t.ret = <<ExpectedOutcome(t)>>

\* the push of the lines failed: no commit and no verification went out, and
\* the session was closed
C19_Witness ==
    /\ Failed(dev.task, "send_config_set")
    /\ ~Sent(dev.task, "commit")
    /\ ~Sent(dev.task, "verify")
    /\ dev.task.pc = "done"
    /\ dev.task.disconnects = 1

\* C20: every Outcome a worker returns, in both plans: reachable=true comes
\* with an empty error, reachable=false with both other flags false
\* (remediation) or found=false and a match count of 0 (audit).
C20_OutcomeConsistent ==
    LET t == dev.task
    IN  t.ret # <<>> =>
            LET o == t.ret[1]
            IN  /\ Reachable(o) => Error(o) = ""
                /\ ~Reachable(o) =>
                       /\ ~OperationSucceeded(o)
                       /\ o[4] = (IF plan = "audit" THEN 0 ELSE FALSE)

\* a remediation call whose commit was confirmed and whose verification
\* capture raised: reachable=false with every flag false
C20_Witness ==
    /\ plan = "remediation"
    /\ dev.task.pc = "done"
    /\ CommitAnswered(dev.task)
    /\ committed_of[dev.task.commit]
    /\ Failed(dev.task, "verify")
    /\ dev.task.ret = <<<<dev.task.host, FALSE, FALSE, FALSE, LastAnswer(dev.task).err.msg>>>>

=============================================================================
